---- MODULE Spec2Model ----
(***************************************************************************)
(* QR2Paper (src/app/app.py): a Flask application that turns a submitted   *)
(* URL into a QR code, composes a one-page PDF and hands it to `lp`, plus  *)
(* a settings page that persists the default printer in a JSON file.       *)
(*                                                                         *)
(* Text is modelled as a sequence of tokens (a token is a character or a   *)
(* short lexical unit), so that strip(), urlparse(), json.dump() and       *)
(* json.load() are computed, not assumed.  Python's None is the record     *)
(* None; a present value v is Some(v).                                     *)
(*                                                                         *)
(* Each request is served by one worker.  When the server runs threaded    *)
(* (Flask's default) the workers interleave at every file operation;       *)
(* otherwise one request is handled to completion before the next one      *)
(* starts.  Spec covers both; SpecSeq is the unthreaded server alone.      *)
(***************************************************************************)
EXTENDS Naturals, Sequences, FiniteSets, TLC

\* Number of request workers that may be serving a request at the same time.
NumWorkers == 2

Procs == 1..NumWorkers

VARIABLES
    threaded,       \* does the server handle requests concurrently?
    settingsFile,   \* printer_settings.json: [exists, content]
    pdfFile,        \* /tmp/qr_print.pdf: [exists, bytes, durable]
    envPrinter,     \* os.getenv("PRINTER_NAME")
    pc,             \* per worker: where its handler stands
    form,           \* per worker: request.method and request.form
    loc,            \* per worker: the handler's local variables
    resp,           \* per worker: the response returned to the client
    lpLog,          \* per worker: the lp runs made for the current request
    lastSave        \* how the most recent save_printer_setting call ended

vars == <<threaded, settingsFile, pdfFile, envPrinter, pc, form, loc, resp, lpLog, lastSave>>

----------------------------------------------------------------------------
(* Values *)

None == [none |-> TRUE]
Some(v) == [none |-> FALSE, v |-> v]

\* Python truthiness of an optional string: None and "" are falsy.
Truthy(x) == ~x.none /\ x.v # <<>>

SETTINGS_FILE == "printer_settings.json"
pdf_path == "/tmp/qr_print.pdf"
FallbackPrinter == <<"autoprinter">>

\* Outcome of a call: a returned value or a raised exception.
Ret(v) == [raised |-> FALSE, value |-> v]
Raise(type, msg) == [raised |-> TRUE, exc |-> [type |-> type, msg |-> msg]]

----------------------------------------------------------------------------
(* str.strip() *)

IsSpace(c) == c = " "

RECURSIVE lstrip(_)
lstrip(s) == IF s # <<>> /\ IsSpace(Head(s)) THEN lstrip(Tail(s)) ELSE s

RECURSIVE rstrip(_)
rstrip(s) ==
    IF s # <<>> /\ IsSpace(s[Len(s)]) THEN rstrip(SubSeq(s, 1, Len(s) - 1)) ELSE s

strip(s) == rstrip(lstrip(s))

----------------------------------------------------------------------------
(* json.dump / json.load on {"printer": name} *)

\* Index of the first occurrence of tok in s at or after position from, or 0.
RECURSIVE IndexFrom(_, _, _)
IndexFrom(s, tok, from) ==
    IF from > Len(s) THEN 0
    ELSE IF s[from] = tok THEN from
    ELSE IndexFrom(s, tok, from + 1)

\* The chunks json.dump writes for the dict {"printer": printer_name}.
json_dump(printer_name) ==
    <<"{", "\"", "printer", "\"", ":", "\"">> \o printer_name \o <<"\"", "}">>

\* json.load of a document holding one object with at most one string member.
\* Anything else in the file (empty, truncated, trailing data) is a
\* JSONDecodeError.
json_load(content) ==
    LET bad == Raise("JSONDecodeError", <<"Expecting value">>)
        k1 == 2
        k2 == IndexFrom(content, "\"", k1 + 1)
        v1 == k2 + 2
        v2 == IndexFrom(content, "\"", v1 + 1)
    IN  IF Len(content) < 2 \/ content[1] # "{" THEN bad
        ELSE IF content = <<"{", "}">> THEN Ret(<<>>)
        ELSE IF content[k1] # "\"" \/ k2 = 0 THEN bad
        ELSE IF Len(content) < v1 \/ content[k2 + 1] # ":" \/ content[v1] # "\"" THEN bad
        ELSE IF v2 = 0 \/ Len(content) # v2 + 1 \/ content[v2 + 1] # "}" THEN bad
        ELSE Ret(<< <<SubSeq(content, k1 + 1, k2 - 1), SubSeq(content, v1 + 1, v2 - 1)>> >>)

\* dict.get(key): the value of the member named key, else None.
dict_get(data, key) ==
    IF \E i \in 1..Len(data) : data[i][1] = key
    THEN Some(data[CHOOSE i \in 1..Len(data) : data[i][1] = key][2])
    ELSE None

----------------------------------------------------------------------------
(* File primitives *)

\* Opening without truncation, as mode "r+" would.
OpenNoTruncate(file) == [file EXCEPT !.exists = TRUE]

\* open(path, "w"): create the file or truncate it to length zero.
OpenW(file) == [file EXCEPT !.exists = TRUE, !.content = <<>>]

\* Flushing a writer opened at offset 0: the data overwrites the file from its
\* start; whatever the file holds beyond the written length stays.
WriteAt0(file, data) ==
    [file EXCEPT !.content =
        data \o (IF Len(file.content) > Len(data)
                 THEN SubSeq(file.content, Len(data) + 1, Len(file.content))
                 ELSE <<>>)]

----------------------------------------------------------------------------
(* Printer Setting Store *)

\* load_printer_setting() against a given state of the settings file.
load_from(file) ==
    IF file.exists
    THEN LET data == json_load(file.content)
         IN  IF data.raised THEN data ELSE Ret(dict_get(data.value, <<"printer">>))
    ELSE Ret(None)

load_printer_setting == load_from(settingsFile)

----------------------------------------------------------------------------
(* Inputs *)

\* request.form["url"] values: blank, valid and padded, wrong scheme, no host,
\* no host before the path, no scheme.
Urls ==
    { <<" ">>,
      <<" ", "https", "://", "h", "/p", " ">>,
      <<"ftp", "://", "h">>,
      <<"http", "://">>,
      <<"http", "://", "/p">>,
      <<"h">> }

\* request.form["description"] values.
Descs == { <<>>, <<" ", "d">> }

\* Names the printer directory (CUPS) may list.
PrinterA == <<"A">>
PrinterBB == <<"B", "B">>

\* conn.getPrinters(): the directory is unreachable, or lists these printers in order.
Unreachable == [reachable |-> FALSE]
Listing(names) == [reachable |-> TRUE, names |-> names]
DirResults == { Unreachable, Listing(<<>>), Listing(<<PrinterBB, PrinterA>>) }

\* request.form.get("printer") and request.form.get("manual_printer", "").
ChosenValues == { None, Some(PrinterA), Some(<<"Z">>) }
ManualValues == { <<>>, <<" ">>, <<" ", "M", "2", " ">> }

\* os.getenv("PRINTER_NAME"): unset, set to the empty string, set to a name.
EnvValues == { None, Some(<<>>), Some(<<"E">>) }

\* What running lp can do: exit 0, exit non-zero, or not be installed.
LpOutcomes == { "exit0", "exit1", "missing" }
LpStderr == "printer offline"

----------------------------------------------------------------------------
(* Responses *)

NoResp == [kind |-> "none"]
Redirect(flash) == [kind |-> "redirect", to |-> "/", flash |-> flash]
ResultPage == [kind |-> "render", template |-> "result.html", code |-> 200]
SettingsPage(printers, selected_printer, message) ==
    [kind |-> "render", template |-> "settings.html", code |-> 200,
     printers |-> printers, selected_printer |-> selected_printer, message |-> message]

\* @app.errorhandler(500): what the client gets when a handler lets an exception out.
server_error == [kind |-> "render", template |-> "500.html", code |-> 500]

----------------------------------------------------------------------------
(* Handler state *)

NoForm == [route |-> "none"]

InitLoc ==
    [url |-> <<>>, desc |-> <<>>, qr_img |-> None, pdf_bytes |-> None,
     printer |-> None,
     printers |-> <<>>, selected_printer |-> None, message |-> None,
     saving |-> None]

\* lastSave: no call yet, the call raised, or it returned having saved name.
NoSave == [name |-> None, status |-> "never"]
SaveRaised == [name |-> None, status |-> "raised"]
SaveReturned(name) == [name |-> Some(name), status |-> "returned"]

Init ==
    /\ threaded \in BOOLEAN
    /\ settingsFile = [exists |-> FALSE, content |-> <<>>]
    /\ pdfFile = [exists |-> FALSE, bytes |-> None, durable |-> FALSE]
    /\ envPrinter \in EnvValues
    /\ pc = [p \in Procs |-> "idle"]
    /\ form = [p \in Procs |-> NoForm]
    /\ loc = [p \in Procs |-> InitLoc]
    /\ resp = [p \in Procs |-> NoResp]
    /\ lpLog = [p \in Procs |-> <<>>]
    /\ lastSave = NoSave

\* No other worker is in the middle of a request.
Alone(p) == \A q \in Procs \ {p} : pc[q] = "idle"

\* Worker p may take a step: always when threaded, else only when alone.
CanRun(p) == threaded \/ Alone(p)

\* The handler of worker p returns response r; its locals go out of scope.
Respond(p, r) ==
    /\ pc' = [pc EXCEPT ![p] = "done"]
    /\ resp' = [resp EXCEPT ![p] = r]
    /\ loc' = [loc EXCEPT ![p] = InitLoc]

\* The handler of worker p goes on at label with locals l.
Goto(p, label, l) ==
    /\ pc' = [pc EXCEPT ![p] = label]
    /\ loc' = [loc EXCEPT ![p] = l]
    /\ UNCHANGED resp

----------------------------------------------------------------------------
(* is_valid_url *)

\* urlparse(url): the scheme is what precedes "://", the netloc what follows it
\* up to the path.
urlparse(url) ==
    IF Len(url) >= 2 /\ url[2] = "://"
    THEN LET rest == SubSeq(url, 3, Len(url))
             slash == IndexFrom(rest, "/p", 1)
         IN  [scheme |-> url[1],
              netloc |-> IF slash = 0 THEN rest ELSE SubSeq(rest, 1, slash - 1)]
    ELSE [scheme |-> "", netloc |-> <<>>]

is_valid_url(url) ==
    LET result == urlparse(url)
    IN  result.scheme \in {"http", "https"} /\ result.netloc # <<>>

----------------------------------------------------------------------------
(* POST /print *)

\* An except clause that names RuntimeError alone.
IsRuntimeErrorOnly(exc) == exc.type = "RuntimeError"

\* Python's exceptions that derive from Exception; every one the pipeline raises does.
ExceptionTypes == {"JSONDecodeError", "OSError", "RuntimeError", "FileNotFoundError", "IPPError"}
IsException(exc) == exc.type \in ExceptionTypes

\* print_url's two except clauses around send_to_printer.
PrintUrlExcept(exc) ==
    IF exc.type = "IPPError"
    THEN Redirect(<<"Printer unreachable or CUPS error. Please check your printer connection.">>)
    ELSE IF IsException(exc)
    THEN Redirect(<<"Failed to send PDF to printer. Error: ">> \o exc.msg \o <<". Please try again.">>)
    ELSE server_error

\* Required fields present after trimming.
FieldsPresent(url, desc) == url # <<>> /\ desc # <<>>

\* print_url up to the validation checks.
PrintValidate(p) ==
    /\ pc[p] = "idle"
    /\ CanRun(p)
    /\ \E u \in Urls, d \in Descs :
        LET url == strip(u)
            desc == strip(d)
        IN  IF ~FieldsPresent(url, desc)
            THEN Respond(p, Redirect(<<"Both URL and description are required.">>))
            ELSE IF ~is_valid_url(url)
            THEN Respond(p, Redirect(<<"Invalid URL provided. Please enter a valid URL starting with http:// or https://">>))
            ELSE Goto(p, "encode", [InitLoc EXCEPT !.url = url, !.desc = desc])
    /\ form' = [form EXCEPT ![p] = [route |-> "/print", method |-> "POST"]]
    /\ lpLog' = [lpLog EXCEPT ![p] = <<>>]
    /\ UNCHANGED <<settingsFile, pdfFile, envPrinter, threaded, lastSave>>

\* generate_qr_code(url) inside its try/except.
PrintEncode(p) ==
    /\ pc[p] = "encode"
    /\ CanRun(p)
    /\ \E ok \in BOOLEAN :
        IF ok
        THEN Goto(p, "compose", [loc[p] EXCEPT !.qr_img = Some([qr |-> loc[p].url])])
        ELSE Respond(p, Redirect(<<"Failed to generate QR code. Please try again.">>))
    /\ UNCHANGED <<settingsFile, pdfFile, envPrinter, threaded, form, lpLog, lastSave>>

\* create_pdf(qr_img, desc) inside its try/except.
PrintCompose(p) ==
    /\ pc[p] = "compose"
    /\ CanRun(p)
    /\ \E ok \in BOOLEAN :
        IF ok
        THEN Goto(p, "dispatch",
                  [loc[p] EXCEPT !.pdf_bytes =
                      Some([image |-> loc[p].qr_img.v, text |-> loc[p].desc])])
        ELSE Respond(p, Redirect(<<"Failed to generate PDF. Please try again.">>))
    /\ UNCHANGED <<settingsFile, pdfFile, envPrinter, threaded, form, lpLog, lastSave>>

----------------------------------------------------------------------------
(* send_to_printer *)

\* The environment consulted before the persisted setting.
ChoosePrinterEnvFirst(persisted, env) ==
    LET printer == IF Truthy(env) THEN env ELSE persisted
    IN  IF ~Truthy(printer) THEN Some(FallbackPrinter) ELSE printer

\* printer = load_printer_setting() or os.getenv("PRINTER_NAME"); fallback if falsy.
ChoosePrinter(persisted, env) ==
    LET printer == IF Truthy(persisted) THEN persisted ELSE env
    IN  IF ~Truthy(printer) THEN Some(FallbackPrinter) ELSE printer

\* The lp command line.
BuildLpCmd(printer) ==
    <<"lp">> \o (IF Truthy(printer) THEN <<"-d">> \o printer.v ELSE <<>>) \o <<pdf_path>>

\* Determine the printer name.
DispatchChoosePrinter(p) ==
    /\ pc[p] = "dispatch"
    /\ CanRun(p)
    /\ LET r == load_printer_setting
       IN  IF r.raised
           THEN Respond(p, PrintUrlExcept(r.exc))
           ELSE Goto(p, "tmp_open",
                     [loc[p] EXCEPT !.printer = ChoosePrinter(r.value, envPrinter)])
    /\ UNCHANGED <<settingsFile, pdfFile, envPrinter, threaded, form, lpLog, lastSave>>

\* open(pdf_path, "wb")
DispatchOpenTmp(p) ==
    /\ pc[p] = "tmp_open"
    /\ CanRun(p)
    /\ \E ok \in BOOLEAN :
        IF ok
        THEN /\ pdfFile' = [exists |-> TRUE, bytes |-> None, durable |-> FALSE]
             /\ Goto(p, "tmp_write", loc[p])
        ELSE /\ Respond(p, PrintUrlExcept([type |-> "OSError", msg |-> <<"open failed">>]))
             /\ UNCHANGED pdfFile
    /\ UNCHANGED <<settingsFile, envPrinter, threaded, form, lpLog, lastSave>>

\* The except clause logging the failure without raising it again.
WriteFailureSwallowed == FALSE

\* Does a failure of write/flush/fsync leave send_to_printer (the re-raise)?
WriteFailureAborts == TRUE

\* f.write(pdf_bytes); f.flush(); os.fsync(f.fileno())
DispatchWriteTmp(p) ==
    /\ pc[p] = "tmp_write"
    /\ CanRun(p)
    /\ \E outcome \in {"ok", "write failed", "fsync failed"} :
        /\ pdfFile' =
            IF outcome = "write failed" THEN pdfFile
            ELSE [exists |-> TRUE, bytes |-> loc[p].pdf_bytes, durable |-> outcome = "ok"]
        /\ IF outcome = "ok" \/ ~WriteFailureAborts
           THEN Goto(p, "lp", loc[p])
           ELSE Respond(p, PrintUrlExcept([type |-> "OSError", msg |-> <<outcome>>]))
    /\ UNCHANGED <<settingsFile, envPrinter, threaded, form, lpLog, lastSave>>

\* The error raised without lp's stderr in it.
LpFailureMessageBare(stderr) == <<"lp command failed">>

\* The message of the error raised for a non-zero exit of lp.
LpFailureMessage(stderr) == <<"lp command failed: ", stderr>>

\* subprocess.run(lp_cmd, check=True): the runs of lp it makes, given how lp ends.
RunLp(lp_cmd, outcome) ==
    IF outcome = "missing" THEN <<>>
    ELSE << [cmd |-> lp_cmd, returncode |-> IF outcome = "exit0" THEN 0 ELSE 1] >>

\* Build the lp command and run it with check=True.
DispatchRunLp(p) ==
    /\ pc[p] = "lp"
    /\ CanRun(p)
    /\ \E outcome \in LpOutcomes :
        /\ lpLog' = [lpLog EXCEPT ![p] = @ \o RunLp(BuildLpCmd(loc[p].printer), outcome)]
        /\ CASE outcome = "exit0" -> Respond(p, ResultPage)
             [] outcome = "exit1" ->
                    Respond(p, PrintUrlExcept(
                        [type |-> "RuntimeError", msg |-> LpFailureMessage(LpStderr)]))
             [] outcome = "missing" ->
                    Respond(p, PrintUrlExcept(
                        [type |-> "FileNotFoundError", msg |-> <<"No such file or directory: 'lp'">>]))
    /\ UNCHANGED <<settingsFile, pdfFile, envPrinter, threaded, form, lastSave>>

----------------------------------------------------------------------------
(* GET/POST /settings *)

RECURSIVE Contains(_, _)
Contains(list, x) ==
    IF list = <<>> THEN FALSE
    ELSE IF Head(list) = x THEN TRUE
    ELSE Contains(Tail(list), x)

\* `chosen in printers`, chosen being request.form.get("printer").
ChosenListed(chosen, printers) == ~chosen.none /\ Contains(printers, chosen.v)

CupsError == Some(<<"CUPS connection error: ">>)
NoPrinters == Some(<<"No printers found. Please check your CUPS setup.">>)
InvalidSelection == Some(<<"Invalid printer selection.">>)
SavedManual(name) == Some(<<"Manual printer '">> \o name \o <<"' saved as default.">>)
SavedChosen(name) == Some(<<"Printer '">> \o name \o <<"' saved as default.">>)

\* The try block of printer_settings: list the printers, read the setting.
\* Yields the locals printers, selected_printer and message.
LookupPrinters(dir, loaded) ==
    IF ~dir.reachable
    THEN [printers |-> <<>>, selected_printer |-> None, message |-> CupsError]
    ELSE IF dir.names = <<>>
    THEN [printers |-> <<>>, selected_printer |-> None, message |-> NoPrinters]
    ELSE IF loaded.raised
    THEN [printers |-> dir.names, selected_printer |-> None, message |-> CupsError]
    ELSE [printers |-> dir.names,
          selected_printer |-> IF Truthy(loaded.value) THEN loaded.value
                               ELSE Some(dir.names[1]),
          message |-> None]

\* printer_settings up to `if request.method == "POST"`; a GET renders here.
SettingsLookup(p) ==
    /\ pc[p] = "idle"
    /\ CanRun(p)
    /\ \E method \in {"GET", "POST"}, chosen \in ChosenValues,
          manual \in ManualValues, dir \in DirResults :
        LET l == LookupPrinters(dir, load_printer_setting)
        IN  /\ method = "GET" => (chosen = None /\ manual = <<>>)
            /\ form' = [form EXCEPT ![p] =
                    [route |-> "/settings", method |-> method,
                     printer |-> chosen, manual_printer |-> manual]]
            /\ IF method = "GET"
               THEN Respond(p, SettingsPage(l.printers, l.selected_printer, l.message))
               ELSE Goto(p, "post",
                         [InitLoc EXCEPT !.printers = l.printers,
                                         !.selected_printer = l.selected_printer,
                                         !.message = l.message])
    /\ lpLog' = [lpLog EXCEPT ![p] = <<>>]
    /\ UNCHANGED <<settingsFile, pdfFile, envPrinter, threaded, lastSave>>

\* The printer field saved without looking it up in the listing.
SaveTargetUnchecked(manual_printer, chosen, printers) ==
    IF manual_printer # <<>> THEN Some(manual_printer)
    ELSE IF ~chosen.none THEN chosen
    ELSE None

\* The name the POST branch saves, or None when the selection is invalid.
SaveTarget(manual_printer, chosen, printers) ==
    IF manual_printer # <<>> THEN Some(manual_printer)
    ELSE IF ChosenListed(chosen, printers) THEN chosen
    ELSE None

\* Is an exception raised by save_printer_setting handled inside printer_settings?
SaveErrorHandled == FALSE

\* What printer_settings answers when save_printer_setting raises.
SaveFailed(p) ==
    IF SaveErrorHandled
    THEN SettingsPage(loc[p].printers, loc[p].selected_printer, Some(<<"Could not save printer.">>))
    ELSE server_error

\* The POST branch up to open(SETTINGS_FILE, "w") inside save_printer_setting.
SettingsPost(p) ==
    /\ pc[p] = "post"
    /\ CanRun(p)
    /\ LET target == SaveTarget(strip(form[p].manual_printer), form[p].printer, loc[p].printers)
       IN  IF target.none
           THEN /\ Respond(p, SettingsPage(loc[p].printers, loc[p].selected_printer,
                                           InvalidSelection))
                /\ UNCHANGED <<settingsFile, lastSave>>
           ELSE \E ok \in BOOLEAN :
                IF ok
                THEN /\ settingsFile' = OpenW(settingsFile)
                     /\ Goto(p, "save_write", [loc[p] EXCEPT !.saving = target])
                     /\ UNCHANGED lastSave
                ELSE /\ lastSave' = SaveRaised
                     /\ Respond(p, SaveFailed(p))
                     /\ UNCHANGED settingsFile
    /\ UNCHANGED <<pdfFile, envPrinter, threaded, form, lpLog>>

\* json.dump into the open file and the close that flushes it, then the rest
\* of the POST branch and the render.
SettingsSaveWrite(p) ==
    /\ pc[p] = "save_write"
    /\ CanRun(p)
    /\ \E ok \in BOOLEAN :
        IF ok
        THEN LET name == loc[p].saving.v
                 manual == strip(form[p].manual_printer) # <<>>
                 printers == IF manual /\ ~Contains(loc[p].printers, name)
                             THEN Append(loc[p].printers, name)
                             ELSE loc[p].printers
                 message == IF manual THEN SavedManual(name) ELSE SavedChosen(name)
             IN  /\ settingsFile' = WriteAt0(settingsFile, json_dump(name))
                 /\ lastSave' = SaveReturned(name)
                 /\ Respond(p, SettingsPage(printers, Some(name), message))
        ELSE /\ lastSave' = SaveRaised
             /\ Respond(p, SaveFailed(p))
             /\ UNCHANGED settingsFile
    /\ UNCHANGED <<pdfFile, envPrinter, threaded, form, lpLog>>

----------------------------------------------------------------------------
(* The server *)

\* The response has been sent; the worker is free for the next request.
Finish(p) ==
    /\ pc[p] = "done"
    /\ CanRun(p)
    /\ pc' = [pc EXCEPT ![p] = "idle"]
    /\ form' = [form EXCEPT ![p] = NoForm]
    /\ resp' = [resp EXCEPT ![p] = NoResp]
    /\ lpLog' = [lpLog EXCEPT ![p] = <<>>]
    /\ UNCHANGED <<settingsFile, pdfFile, envPrinter, threaded, loc, lastSave>>

Step(p) ==
    \/ PrintValidate(p)
    \/ PrintEncode(p)
    \/ PrintCompose(p)
    \/ DispatchChoosePrinter(p)
    \/ DispatchOpenTmp(p)
    \/ DispatchWriteTmp(p)
    \/ DispatchRunLp(p)
    \/ SettingsLookup(p)
    \/ SettingsPost(p)
    \/ SettingsSaveWrite(p)
    \/ Finish(p)

Next == \E p \in Procs : Step(p)

Spec == Init /\ [][Next]_vars

\* The server started without threads.
InitSeq == Init /\ ~threaded

SpecSeq == InitSeq /\ [][Next]_vars

----------------------------------------------------------------------------
(* Properties *)

Done(p) == pc[p] = "done"
IsPrint(p) == form[p].route = "/print"
IsSettings(p) == form[p].route = "/settings"
IsRedirect(r) == r.kind = "redirect" /\ r.to = "/" /\ r.flash # <<>>
IsSettingsPage(r) == r.kind = "render" /\ r.template = "settings.html"

\* Worker p runs lp in this step.
LpRunNow(p) == Len(lpLog'[p]) > Len(lpLog[p])

\* Every stage before the lp run has succeeded for worker p's request.
StagesSucceeded(p) ==
    /\ loc[p].url # <<>> /\ loc[p].desc # <<>>
    /\ ~IsSpace(Head(loc[p].url)) /\ ~IsSpace(loc[p].url[Len(loc[p].url)])
    /\ loc[p].url[1] \in {"http", "https"} /\ loc[p].url[2] = "://"
    /\ Len(loc[p].url) >= 3 /\ loc[p].url[3] # "/p"
    /\ loc[p].qr_img = Some([qr |-> loc[p].url])
    /\ loc[p].pdf_bytes = Some([image |-> [qr |-> loc[p].url], text |-> loc[p].desc])
    /\ pdfFile = [exists |-> TRUE, bytes |-> loc[p].pdf_bytes, durable |-> TRUE]

\* The request was turned away by a stage that precedes the lp run.
FailedBeforeLp(r) == IsRedirect(r) /\ ~Contains(r.flash, "lp command failed: ")

\* C1: lp is run for a POST /print request only after the fields were
\* non-empty after trimming, the URL was valid, the QR code and the PDF were
\* produced and the PDF was written, flushed and fsynced to the temp file; a
\* request that a stage before lp turned away has run lp not at all.
C1_LpOnlyAfterAllStages ==
    [][\A p \in Procs :
          /\ LpRunNow(p) => StagesSucceeded(p)
          /\ (pc'[p] = "done" /\ form'[p].route = "/print" /\ FailedBeforeLp(resp'[p]))
                => lpLog'[p] = <<>>]_vars

\* A print request ended with the success page after one lp run.
C1_Witness ==
    \E p \in Procs : Done(p) /\ IsPrint(p) /\ resp[p] = ResultPage /\ Len(lpLog[p]) = 1

\* C2: a POST /print request ends either with the success page, and then the
\* PDF of a valid URL lies synced in the temp file and the one lp run exited
\* with status zero, or with a redirect to the form carrying a flash message,
\* and then no lp run succeeded; it never ends in the 500 handler.
C2_PrintEndsInSuccessOrRedirect ==
    \A p \in Procs : (Done(p) /\ IsPrint(p)) =>
        /\ resp[p] # server_error
        /\ resp[p] = ResultPage \/ IsRedirect(resp[p])
        /\ resp[p] = ResultPage =>
              /\ Len(lpLog[p]) = 1 /\ lpLog[p][1].returncode = 0
              /\ pdfFile.exists /\ pdfFile.durable /\ ~pdfFile.bytes.none
              /\ pdfFile.bytes.v.image.qr[1] \in {"http", "https"}
              /\ pdfFile.bytes.v.text # <<>>
        /\ IsRedirect(resp[p]) =>
              \A i \in 1..Len(lpLog[p]) : lpLog[p][i].returncode # 0

\* A print request was redirected because reading the printer setting failed
\* during dispatch.
C2_Witness ==
    \E p \in Procs :
        /\ Done(p) /\ IsPrint(p) /\ IsRedirect(resp[p])
        /\ Contains(resp[p].flash, "Expecting value")

\* The printer argument of an lp command line.
PrinterArg(cmd) == SubSeq(cmd, 3, Len(cmd) - 1)

\* Every lp run of the current requests names the printer `expected`.
LpRunsName(expected) ==
    \A p \in Procs : \A i \in 1..Len(lpLog[p]) :
        /\ lpLog[p][i].cmd[1] = "lp" /\ lpLog[p][i].cmd[2] = "-d"
        /\ PrinterArg(lpLog[p][i].cmd) = expected
        /\ lpLog[p][i].cmd[Len(lpLog[p][i].cmd)] = pdf_path

SomeLpRun == \E p \in Procs : lpLog[p] # <<>>

\* C3 as stated: the printer passed to lp is the persisted setting if one is
\* stored, else PRINTER_NAME if it is set, else "autoprinter".
C3_Original ==
    SomeLpRun =>
        LET r == load_printer_setting
        IN  /\ ~r.raised
            /\ LpRunsName(IF ~r.value.none THEN r.value.v
                          ELSE IF ~envPrinter.none THEN envPrinter.v
                          ELSE FallbackPrinter)

\* C3: the printer passed to lp is the persisted setting if one is stored and
\* not empty, else PRINTER_NAME if it is set and not empty, else "autoprinter".
C3_PrinterPrecedence ==
    SomeLpRun =>
        LET r == load_printer_setting
        IN  /\ ~r.raised
            /\ LpRunsName(IF ~r.value.none /\ r.value.v # <<>> THEN r.value.v
                          ELSE IF ~envPrinter.none /\ envPrinter.v # <<>> THEN envPrinter.v
                          ELSE FallbackPrinter)

\* lp was run while a setting was persisted and PRINTER_NAME named another printer.
C3_Witness ==
    /\ SomeLpRun
    /\ load_printer_setting = Ret(Some(PrinterA))
    /\ envPrinter = Some(<<"E">>)

\* Worker q calls load_printer_setting in this step.
LoadsNow(q) ==
    \/ pc[q] = "dispatch" /\ pc'[q] # "dispatch"
    \/ /\ pc[q] = "idle" /\ form'[q].route = "/settings"
       /\ \/ pc'[q] = "post" /\ loc'[q].printers # <<>>
          \/ pc'[q] = "done" /\ resp'[q].printers # <<>>

\* C4: no call of load_printer_setting raises, whatever the settings file
\* holds, and a call made while the file does not exist returns None.
C4_LoadNeverRaises ==
    [][\A q \in Procs :
          LoadsNow(q) =>
              LET r == load_printer_setting
              IN  /\ ~r.raised
                  /\ ~settingsFile.exists => r.value = None]_vars

\* The file holds exactly one complete record (or was never written).
CompleteRecord(file) ==
    ~file.exists \/
        LET data == json_load(file.content)
        IN  /\ ~data.raised
            /\ ~dict_get(data.value, <<"printer">>).none
            /\ file.content = json_dump(dict_get(data.value, <<"printer">>).v)

\* C5: a load that runs while another worker is inside save_printer_setting
\* reads a complete record, the previous or the new one, never an empty or a
\* partly written file.
C5_LoadSeesCompleteRecord ==
    [][\A q \in Procs :
          (LoadsNow(q) /\ \E p \in Procs \ {q} : pc[p] = "save_write")
              => CompleteRecord(settingsFile)]_vars

\* C6: when the last save call has returned and no save is under way, the
\* file holds exactly the record of the last saved name and load returns
\* that name.
C6_LastWriteWins ==
    (lastSave.status = "returned" /\ \A p \in Procs : pc[p] # "save_write") =>
        /\ settingsFile.exists
        /\ settingsFile.content = json_dump(lastSave.name.v)
        /\ load_printer_setting = Ret(lastSave.name)

\* A GET /settings that followed a save of the shorter name shows that name.
C6_Witness ==
    \E p \in Procs :
        /\ Done(p) /\ IsSettings(p) /\ form[p].method = "GET"
        /\ lastSave = SaveReturned(PrinterA)
        /\ IsSettingsPage(resp[p]) /\ resp[p].selected_printer = Some(PrinterA)

\* C7: a request whose lp run exited with a non-zero status ran lp exactly
\* once and is answered with the dispatch error, whose text holds lp's stderr.
C7_LpFailureSurfacedOnce ==
    \A p \in Procs :
        (Done(p) /\ \E i \in 1..Len(lpLog[p]) : lpLog[p][i].returncode # 0) =>
            /\ Len(lpLog[p]) = 1
            /\ IsRedirect(resp[p])
            /\ Contains(resp[p].flash, "lp command failed: ")
            /\ Contains(resp[p].flash, LpStderr)

\* A print request ended after lp exited with status 1.
C7_Witness ==
    \E p \in Procs : Done(p) /\ Len(lpLog[p]) = 1 /\ lpLog[p][1].returncode = 1

\* C8: every POST /settings ends with the settings page carrying a message,
\* never in the 500 handler.
C8_SettingsPostNeverFails ==
    \A p \in Procs : (Done(p) /\ IsSettings(p) /\ form[p].method = "POST") =>
        /\ resp[p] # server_error
        /\ IsSettingsPage(resp[p])
        /\ ~resp[p].message.none

\* C9: a GET /settings shows the persisted printer name as the selected
\* printer whenever one is persisted, whatever the directory returned.
C9_GetShowsPersisted ==
    \A p \in Procs : (Done(p) /\ IsSettings(p) /\ form[p].method = "GET") =>
        LET r == load_printer_setting
        IN  (~r.raised /\ ~r.value.none) =>
                /\ IsSettingsPage(resp[p])
                /\ resp[p].selected_printer = r.value

\* The POST of worker p names a printer to save: a manual name that is not
\* blank, or else a printer field that is among `listed`.
NamesPrinter(p, listed) ==
    \/ \E i \in 1..Len(form[p].manual_printer) : form[p].manual_printer[i] # " "
    \/ /\ ~form[p].printer.none
       /\ \E i \in 1..Len(listed) : listed[i] = form[p].printer.v

\* The name that POST is to save.
NamedPrinter(p) ==
    IF \E i \in 1..Len(form[p].manual_printer) : form[p].manual_printer[i] # " "
    THEN strip(form[p].manual_printer)
    ELSE form[p].printer.v

\* C10: the settings file changes only in a step of a POST /settings that
\* names a printer (a manual name, or a listed printer field), and when that
\* request's save returns the file holds the named printer; a POST that names
\* none is answered "Invalid printer selection.", and only such a POST is.
C10_SettingsPostFrame ==
    [][/\ settingsFile' # settingsFile =>
            \E p \in Procs :
                /\ pc[p] \in {"post", "save_write"} /\ pc'[p] # pc[p]
                /\ IsSettings(p) /\ form[p].method = "POST"
                /\ NamesPrinter(p, loc[p].printers)
                /\ (pc'[p] = "done" /\ IsSettingsPage(resp'[p])) =>
                        load_from(settingsFile') = Ret(Some(NamedPrinter(p)))
       /\ \A p \in Procs :
            (pc[p] = "post" /\ pc'[p] = "done" /\ IsSettingsPage(resp'[p])) =>
                /\ ~NamesPrinter(p, loc[p].printers)
                /\ resp'[p].message = InvalidSelection
                /\ settingsFile' = settingsFile
       /\ \A p \in Procs :
            (pc[p] = "save_write" /\ pc'[p] = "done" /\ IsSettingsPage(resp'[p])) =>
                resp'[p].message # InvalidSelection]_vars

\* A POST carrying both a listed printer and a manual name saved the manual name.
C10_Witness ==
    \E p \in Procs :
        /\ Done(p) /\ IsSettings(p) /\ form[p].method = "POST"
        /\ form[p].printer = Some(PrinterA)
        /\ IsSettingsPage(resp[p]) /\ Contains(resp[p].printers, PrinterA)
        /\ load_printer_setting = Ret(Some(<<"M", "2">>))

====
